---- MODULE Spec2Model ----
(***************************************************************************)
(* Model of starter-bots/rust/src/json.rs: the game-state loader           *)
(* (read_state_from_json_file and the serde-derived schema), the State     *)
(* accessors (active_worm, cell_at) and the Position step helpers          *)
(* (west, east, north, south).                                             *)
(***************************************************************************)
EXTENDS Integers, Sequences, FiniteSets, TLC

VARIABLES
    pos,      \* the receiver (&self) of the Position helpers
    ret,      \* the last Position helper call: op, arguments, receiver, outcome
    file,     \* what the file system holds under the filename passed to the loader
    pc,       \* position inside read_state_from_json_file
    content,  \* the String buffer filled by read_to_string
    result,   \* the Result returned by the loader (or a State built by the caller)
    steps,    \* the operations read_state_from_json_file has performed, in order
    acc,      \* the last accessor call on the State: fn, argument, outcome
    wire      \* the text produced by serialising the State again

vars == <<pos, ret, file, pc, content, result, steps, acc, wire>>

posVars  == <<pos, ret>>
loadVars == <<file, pc, content, result, steps, acc, wire>>

----------------------------------------------------------------------------
(* Bounds and program constants *)

\* u32::MAX, scaled down: the model's unsigned words are the integers
\* 0 .. MaxU32, and coordinates, distances and bounds are swept over all of them
MaxU32 == 7

\* documents carry mapSize in 1 .. MaxMapSize and grids of up to
\* MaxMapSize rows and columns
MaxMapSize == 2

\* worm ids are drawn from 1 .. MaxWormId
MaxWormId == 2

\* myPlayer.worms has up to MaxWorms entries
MaxWorms == 2

Vals == 0 .. MaxU32

----------------------------------------------------------------------------
(* Option<T> and Result<T, E> *)

None == <<>>
Some(v) == <<v>>
IsSome(o) == Len(o) = 1
Unwrap(o) == o[1]

Ok(v) == [ok |-> TRUE, val |-> v]
Err(kind, cause) == [ok |-> FALSE, kind |-> kind, cause |-> cause]

----------------------------------------------------------------------------
(* Position helpers *)

Position(x, y) == [x |-> x, y |-> y]

\* u32::checked_sub
checked_sub(a, b) == IF a - b < 0 THEN None ELSE Some(a - b)

\* u32::checked_add
checked_add(a, b) == IF a + b > MaxU32 THEN None ELSE Some(a + b)

\* u32::wrapping_sub / wrapping_add: what unchecked arithmetic would give
wrapping_sub(a, b) == Some((a - b) % (MaxU32 + 1))
wrapping_add(a, b) == Some((a + b) % (MaxU32 + 1))

\* Option::filter with the predicate |&v| v < max
filter_lt(o, max) == IF IsSome(o) /\ Unwrap(o) < max THEN o ELSE None

west_wrapping(p, distance) ==
    LET o == wrapping_sub(p.x, distance)
    IN  IF IsSome(o) THEN Some(Position(Unwrap(o), p.y)) ELSE None

west(p, distance) ==
    LET o == checked_sub(p.x, distance)
    IN  IF IsSome(o) THEN Some(Position(Unwrap(o), p.y)) ELSE None

east_wrapping(p, distance, max) ==
    LET o == filter_lt(wrapping_add(p.x, distance), max)
    IN  IF IsSome(o) THEN Some(Position(Unwrap(o), p.y)) ELSE None

east(p, distance, max) ==
    LET o == filter_lt(checked_add(p.x, distance), max)
    IN  IF IsSome(o) THEN Some(Position(Unwrap(o), p.y)) ELSE None

north(p, distance) ==
    LET o == checked_sub(p.y, distance)
    IN  IF IsSome(o) THEN Some(Position(p.x, Unwrap(o))) ELSE None

south_swapped(p, distance, max) ==
    LET o == filter_lt(checked_add(p.y, distance), max)
    IN  IF IsSome(o) THEN Some(Position(Unwrap(o), p.x)) ELSE None

south(p, distance, max) ==
    LET o == filter_lt(checked_add(p.y, distance), max)
    IN  IF IsSome(o) THEN Some(Position(p.x, Unwrap(o))) ELSE None

NoCall == [op |-> "none"]

Call(op, self, distance, max, out) ==
    [op |-> op, self |-> self, distance |-> distance, max |-> max, out |-> out]

West(distance) ==
    /\ ret' = Call("west", pos, distance, 0, west(pos, distance))
    /\ UNCHANGED pos

East(distance, max) ==
    /\ ret' = Call("east", pos, distance, max, east(pos, distance, max))
    /\ UNCHANGED pos

North(distance) ==
    /\ ret' = Call("north", pos, distance, 0, north(pos, distance))
    /\ UNCHANGED pos

South(distance, max) ==
    /\ ret' = Call("south", pos, distance, max, south(pos, distance, max))
    /\ UNCHANGED pos

----------------------------------------------------------------------------
(* JSON documents.  A value is a number, a string, null, an object (a      *)
(* function from keys to values) or an array.  Structs are given in object *)
(* form.                                                                   *)

JNum(n) == [t |-> "num", n |-> n]
JStr(s) == [t |-> "str", s |-> s]
JNull   == [t |-> "null"]
JObj(o) == [t |-> "obj", o |-> o]
JArr(a) == [t |-> "arr", a |-> a]

ParseErr(cause) == Err("parse", cause)

AllOk(rs) == \A i \in 1 .. Len(rs) : rs[i].ok
FirstErr(rs) ==
    rs[CHOOSE i \in 1 .. Len(rs) : ~rs[i].ok /\ \A j \in 1 .. (i - 1) : rs[j].ok]

\* u32 from a JSON number
de_u32(v) ==
    IF v.t = "num" /\ v.n >= 0 /\ v.n <= MaxU32
    THEN Ok(v.n)
    ELSE ParseErr("invalid type or value, expected u32")

\* Deserialize for the type named T (defined below, after the types)
RECURSIVE de(_, _)

\* a field of type T of a derived struct: a missing key is an error
field(v, k, T) ==
    IF k \in DOMAIN v.o THEN de(T, v.o[k]) ELSE ParseErr("missing field " \o k)

\* a field of type Option<T>: a missing key and null both give None
optional(v, k, T) ==
    IF k \notin DOMAIN v.o \/ v.o[k].t = "null"
    THEN Ok(None)
    ELSE LET r == de(T, v.o[k]) IN IF r.ok THEN Ok(Some(r.val)) ELSE r

\* a sequence decoded without its first element
de_Vec_skip_first(v, T) ==
    IF v.t # "arr"
    THEN ParseErr("invalid type, expected a sequence")
    ELSE LET rs == [i \in 1 .. Len(v.a) |-> de(T, v.a[i])]
         IN  IF AllOk(rs) THEN Ok([i \in 1 .. (Len(rs) - 1) |-> rs[i + 1].val])
             ELSE FirstErr(rs)

\* Vec<T>
de_Vec(v, T) ==
    IF v.t # "arr"
    THEN ParseErr("invalid type, expected a sequence")
    ELSE LET rs == [i \in 1 .. Len(v.a) |-> de(T, v.a[i])]
         IN  IF AllOk(rs) THEN Ok([i \in 1 .. Len(rs) |-> rs[i].val])
             ELSE FirstErr(rs)

NotAStruct == ParseErr("invalid type, expected a struct")

de_Position(v) ==
    IF v.t # "obj" THEN NotAStruct
    ELSE LET x == field(v, "x", "u32")
             y == field(v, "y", "u32")
             rs == <<x, y>>
         IN  IF AllOk(rs) THEN Ok(Position(x.val, y.val)) ELSE FirstErr(rs)

de_Weapon(v) ==
    IF v.t # "obj" THEN NotAStruct
    ELSE LET damage == field(v, "damage", "u32")
             range  == field(v, "range", "u32")
             rs == <<damage, range>>
         IN  IF AllOk(rs) THEN Ok([damage |-> damage.val, range |-> range.val])
             ELSE FirstErr(rs)

de_PlayerWorm(v) ==
    IF v.t # "obj" THEN NotAStruct
    ELSE LET id       == field(v, "id", "u32")
             health   == field(v, "health", "u32")
             position == field(v, "position", "Position")
             digging  == field(v, "diggingRange", "u32")
             movement == field(v, "movementRange", "u32")
             weapon   == field(v, "weapon", "Weapon")
             rs == <<id, health, position, digging, movement, weapon>>
         IN  IF AllOk(rs)
             THEN Ok([id |-> id.val, health |-> health.val,
                      position |-> position.val,
                      digging_range |-> digging.val,
                      movement_range |-> movement.val,
                      weapon |-> weapon.val])
             ELSE FirstErr(rs)

de_OpponentWorm(v) ==
    IF v.t # "obj" THEN NotAStruct
    ELSE LET id       == field(v, "id", "u32")
             health   == field(v, "health", "u32")
             position == field(v, "position", "Position")
             digging  == field(v, "diggingRange", "u32")
             movement == field(v, "movementRange", "u32")
             rs == <<id, health, position, digging, movement>>
         IN  IF AllOk(rs)
             THEN Ok([id |-> id.val, health |-> health.val,
                      position |-> position.val,
                      digging_range |-> digging.val,
                      movement_range |-> movement.val])
             ELSE FirstErr(rs)


de_Player(v) ==
    IF v.t # "obj" THEN NotAStruct
    ELSE LET id     == field(v, "id", "u32")
             score  == field(v, "score", "u32")
             health == field(v, "health", "u32")
             worms  == field(v, "worms", "Vec<PlayerWorm>")
             rs == <<id, score, health, worms>>
         IN  IF AllOk(rs)
             THEN Ok([id |-> id.val, score |-> score.val,
                      health |-> health.val, worms |-> worms.val])
             ELSE FirstErr(rs)

de_Opponent(v) ==
    IF v.t # "obj" THEN NotAStruct
    ELSE LET id    == field(v, "id", "u32")
             score == field(v, "score", "u32")
             worms == field(v, "worms", "Vec<OpponentWorm>")
             rs == <<id, score, worms>>
         IN  IF AllOk(rs)
             THEN Ok([id |-> id.val, score |-> score.val, worms |-> worms.val])
             ELSE FirstErr(rs)

\* rename_all = "SCREAMING_SNAKE_CASE" on the variants Air, Dirt, DeepSpace
CellTypeTokens == [AIR |-> "Air", DIRT |-> "Dirt", DEEP_SPACE |-> "DeepSpace"]

de_CellType(v) ==
    IF v.t = "str" /\ v.s \in DOMAIN CellTypeTokens
    THEN Ok(CellTypeTokens[v.s])
    ELSE ParseErr("unknown variant, expected one of AIR, DIRT, DEEP_SPACE")

PowerupTypeTokens == [HEALTH_PACK |-> "HealthPack"]

de_PowerupType(v) ==
    IF v.t = "str" /\ v.s \in DOMAIN PowerupTypeTokens
    THEN Ok(PowerupTypeTokens[v.s])
    ELSE ParseErr("unknown variant, expected HEALTH_PACK")

de_Powerup(v) ==
    IF v.t # "obj" THEN NotAStruct
    ELSE LET type  == field(v, "type", "PowerupType")
             value == field(v, "value", "u32")
             rs == <<type, value>>
         IN  IF AllOk(rs)
             THEN Ok([powerup_type |-> type.val, value |-> value.val])
             ELSE FirstErr(rs)

\* the struct variant CellWorm::PlayerWorm
de_CellWorm_PlayerWorm(v) ==
    IF v.t # "obj" THEN NotAStruct
    ELSE LET id       == field(v, "id", "u32")
             player   == field(v, "playerId", "u32")
             health   == field(v, "health", "u32")
             position == field(v, "position", "Position")
             digging  == field(v, "diggingRange", "u32")
             movement == field(v, "movementRange", "u32")
             weapon   == field(v, "weapon", "Weapon")
             rs == <<id, player, health, position, digging, movement, weapon>>
         IN  IF AllOk(rs)
             THEN Ok([variant |-> "PlayerWorm",
                      id |-> id.val, player_id |-> player.val,
                      health |-> health.val, position |-> position.val,
                      digging_range |-> digging.val,
                      movement_range |-> movement.val,
                      weapon |-> weapon.val])
             ELSE FirstErr(rs)

\* the struct variant CellWorm::OpponentWorm; keys it does not know are ignored
de_CellWorm_OpponentWorm(v) ==
    IF v.t # "obj" THEN NotAStruct
    ELSE LET id       == field(v, "id", "u32")
             player   == field(v, "playerId", "u32")
             health   == field(v, "health", "u32")
             position == field(v, "position", "Position")
             digging  == field(v, "diggingRange", "u32")
             movement == field(v, "movementRange", "u32")
             rs == <<id, player, health, position, digging, movement>>
         IN  IF AllOk(rs)
             THEN Ok([variant |-> "OpponentWorm",
                      id |-> id.val, player_id |-> player.val,
                      health |-> health.val, position |-> position.val,
                      digging_range |-> digging.val,
                      movement_range |-> movement.val])
             ELSE FirstErr(rs)

NoVariant == ParseErr("data did not match any variant of untagged enum CellWorm")

\* the variants tried in the opposite order
de_CellWorm_opponent_first(v) ==
    LET o == de_CellWorm_OpponentWorm(v)
        p == de_CellWorm_PlayerWorm(v)
    IN  IF o.ok THEN o ELSE IF p.ok THEN p ELSE NoVariant

\* #[serde(untagged)]: the variants are tried in declaration order
de_CellWorm(v) ==
    LET p == de_CellWorm_PlayerWorm(v)
        o == de_CellWorm_OpponentWorm(v)
    IN  IF p.ok THEN p ELSE IF o.ok THEN o ELSE NoVariant

de_Cell(v) ==
    IF v.t # "obj" THEN NotAStruct
    ELSE LET x        == field(v, "x", "u32")
             y        == field(v, "y", "u32")
             type     == field(v, "type", "CellType")
             occupier == optional(v, "occupier", "CellWorm")
             powerup  == optional(v, "powerup", "Powerup")
             rs == <<x, y, type, occupier, powerup>>
         IN  IF AllOk(rs)
             THEN Ok([x |-> x.val, y |-> y.val, cell_type |-> type.val,
                      occupier |-> occupier.val, powerup |-> powerup.val])
             ELSE FirstErr(rs)

de_State(v) ==
    IF v.t # "obj" THEN NotAStruct
    ELSE LET round     == field(v, "currentRound", "u32")
             rounds    == field(v, "maxRounds", "u32")
             size      == field(v, "mapSize", "u32")
             worm      == field(v, "currentWormId", "u32")
             nothing   == field(v, "consecutiveDoNothingCount", "u32")
             player    == field(v, "myPlayer", "Player")
             opponents == field(v, "opponents", "Vec<Opponent>")
             map       == field(v, "map", "Vec<Vec<Cell>>")
             rs == <<round, rounds, size, worm, nothing, player, opponents, map>>
         IN  IF AllOk(rs)
             THEN Ok([current_round |-> round.val, max_rounds |-> rounds.val,
                      map_size |-> size.val, current_worm_id |-> worm.val,
                      consecutive_do_nothing_count |-> nothing.val,
                      my_player |-> player.val, opponents |-> opponents.val,
                      map |-> map.val])
             ELSE FirstErr(rs)

de(T, v) ==
    CASE T = "u32"               -> de_u32(v)
      [] T = "Position"          -> de_Position(v)
      [] T = "Weapon"            -> de_Weapon(v)
      [] T = "PlayerWorm"        -> de_PlayerWorm(v)
      [] T = "OpponentWorm"      -> de_OpponentWorm(v)
      [] T = "Player"            -> de_Player(v)
      [] T = "Opponent"          -> de_Opponent(v)
      [] T = "CellType"          -> de_CellType(v)
      [] T = "PowerupType"       -> de_PowerupType(v)
      [] T = "Powerup"           -> de_Powerup(v)
      [] T = "CellWorm"          -> de_CellWorm(v)
      [] T = "Cell"              -> de_Cell(v)
      [] T = "Vec<PlayerWorm>"   -> de_Vec(v, "PlayerWorm")
      [] T = "Vec<OpponentWorm>" -> de_Vec(v, "OpponentWorm")
      [] T = "Vec<Opponent>"     -> de_Vec(v, "Opponent")
      [] T = "Vec<Cell>"         -> de_Vec(v, "Cell")
      [] T = "Vec<Vec<Cell>>"    -> de_Vec(v, "Vec<Cell>")
      [] T = "State"             -> de_State(v)

\* the text of a file: a JSON document, or text that is not JSON at all
Json(doc) == [syntax |-> "json", doc |-> doc]
Garbage   == [syntax |-> "garbage"]
Empty     == [syntax |-> "empty"]

\* serde_json::from_str::<State>
from_str(text) ==
    IF text.syntax = "json" THEN de("State", text.doc)
    ELSE ParseErr("syntax error or unexpected end of input")

----------------------------------------------------------------------------
(* Serialisation, as derived by #[derive(Serialize)] *)

ser_Position(p) == JObj([x |-> JNum(p.x), y |-> JNum(p.y)])

ser_Weapon(w) == JObj([damage |-> JNum(w.damage), range |-> JNum(w.range)])

ser_PlayerWorm(w) ==
    JObj([id |-> JNum(w.id), health |-> JNum(w.health),
          position |-> ser_Position(w.position),
          diggingRange |-> JNum(w.digging_range),
          movementRange |-> JNum(w.movement_range),
          weapon |-> ser_Weapon(w.weapon)])

ser_OpponentWorm(w) ==
    JObj([id |-> JNum(w.id), health |-> JNum(w.health),
          position |-> ser_Position(w.position),
          diggingRange |-> JNum(w.digging_range),
          movementRange |-> JNum(w.movement_range)])

ser_Player(p) ==
    JObj([id |-> JNum(p.id), score |-> JNum(p.score), health |-> JNum(p.health),
          worms |-> JArr([i \in 1 .. Len(p.worms) |-> ser_PlayerWorm(p.worms[i])])])

ser_Opponent(p) ==
    JObj([id |-> JNum(p.id), score |-> JNum(p.score),
          worms |-> JArr([i \in 1 .. Len(p.worms) |-> ser_OpponentWorm(p.worms[i])])])

ser_CellType(c) ==
    JStr(CHOOSE tok \in DOMAIN CellTypeTokens : CellTypeTokens[tok] = c)

ser_PowerupType(c) ==
    JStr(CHOOSE tok \in DOMAIN PowerupTypeTokens : PowerupTypeTokens[tok] = c)

ser_Powerup(p) ==
    JObj([type |-> ser_PowerupType(p.powerup_type), value |-> JNum(p.value)])

\* every worm written in the reduced shape, the weapon dropped
ser_CellWorm_no_weapon(w) ==
    JObj([id |-> JNum(w.id), playerId |-> JNum(w.player_id),
          health |-> JNum(w.health),
          position |-> ser_Position(w.position),
          diggingRange |-> JNum(w.digging_range),
          movementRange |-> JNum(w.movement_range)])

\* untagged: the fields of the variant, no tag
ser_CellWorm(w) ==
    IF w.variant = "PlayerWorm"
    THEN JObj([id |-> JNum(w.id), playerId |-> JNum(w.player_id),
               health |-> JNum(w.health),
               position |-> ser_Position(w.position),
               diggingRange |-> JNum(w.digging_range),
               movementRange |-> JNum(w.movement_range),
               weapon |-> ser_Weapon(w.weapon)])
    ELSE JObj([id |-> JNum(w.id), playerId |-> JNum(w.player_id),
               health |-> JNum(w.health),
               position |-> ser_Position(w.position),
               diggingRange |-> JNum(w.digging_range),
               movementRange |-> JNum(w.movement_range)])

\* Option<T>: None is written as null
ser_Option_CellWorm(o) == IF IsSome(o) THEN ser_CellWorm(Unwrap(o)) ELSE JNull
ser_Option_Powerup(o) == IF IsSome(o) THEN ser_Powerup(Unwrap(o)) ELSE JNull

ser_Cell(c) ==
    JObj([x |-> JNum(c.x), y |-> JNum(c.y), type |-> ser_CellType(c.cell_type),
          occupier |-> ser_Option_CellWorm(c.occupier),
          powerup |-> ser_Option_Powerup(c.powerup)])

ser_Row(r) == JArr([i \in 1 .. Len(r) |-> ser_Cell(r[i])])

ser_State(s) ==
    JObj([currentRound |-> JNum(s.current_round),
          maxRounds |-> JNum(s.max_rounds),
          mapSize |-> JNum(s.map_size),
          currentWormId |-> JNum(s.current_worm_id),
          consecutiveDoNothingCount |-> JNum(s.consecutive_do_nothing_count),
          myPlayer |-> ser_Player(s.my_player),
          opponents |-> JArr([i \in 1 .. Len(s.opponents) |->
                                ser_Opponent(s.opponents[i])]),
          map |-> JArr([i \in 1 .. Len(s.map) |-> ser_Row(s.map[i])])])

\* serde_json::to_string
to_string(s) == Json(ser_State(s))

----------------------------------------------------------------------------
(* Accessors of State *)

Return(v) == [panic |-> FALSE, val |-> v]
Panic(msg) == [panic |-> TRUE, msg |-> msg]

RECURSIVE Flatten(_)
Flatten(rows) ==
    IF rows = <<>> THEN <<>> ELSE Head(rows) \o Flatten(Tail(rows))

\* Iterator::find over the outcomes of its predicate: the index of the first
\* element the predicate holds for, 0 if there is none
find(hits) ==
    IF \E i \in 1 .. Len(hits) : hits[i]
    THEN CHOOSE i \in 1 .. Len(hits) : hits[i] /\ \A j \in 1 .. (i - 1) : ~hits[j]
    ELSE 0

\* the last match instead of the first
active_worm_last(s) ==
    LET P(w) == w.id = s.current_worm_id
        ws == s.my_player.worms
    IN  IF \E i \in 1 .. Len(ws) : P(ws[i])
        THEN Return(ws[CHOOSE i \in 1 .. Len(ws) :
                          P(ws[i]) /\ \A j \in (i + 1) .. Len(ws) : ~P(ws[j])])
        ELSE Panic("The current active worm id was not found in the player's worms")

active_worm(s) ==
    LET ws == s.my_player.worms
        i == find([k \in 1 .. Len(ws) |-> ws[k].id = s.current_worm_id])
    IN  IF i # 0 THEN Return(s.my_player.worms[i])
        ELSE Panic("The current active worm id was not found in the player's worms")

\* the cell taken from row y, column x of the grid
cell_at_index(s, p) ==
    IF p.y + 1 \in 1 .. Len(s.map) /\ p.x + 1 \in 1 .. Len(s.map[p.y + 1])
    THEN Return(s.map[p.y + 1][p.x + 1])
    ELSE Panic("The provided position is out of bounds")

cell_at(s, p) ==
    LET cells == Flatten(s.map)
        i == find([k \in 1 .. Len(cells) |-> cells[k].x = p.x /\ cells[k].y = p.y])
    IN  IF i # 0 THEN Return(cells[i])
        ELSE Panic("The provided position is out of bounds")

----------------------------------------------------------------------------
(* The documents the loader is run on *)

WeaponDoc == JObj([damage |-> JNum(1), range |-> JNum(3)])

PositionDoc(x, y) == JObj([x |-> JNum(x), y |-> JNum(y)])

PlayerWormDoc(id, health) ==
    JObj([id |-> JNum(id), health |-> JNum(health),
          position |-> PositionDoc(0, 0), weapon |-> WeaponDoc,
          diggingRange |-> JNum(1), movementRange |-> JNum(1)])

OpponentWormDoc(id) ==
    JObj([id |-> JNum(id), health |-> JNum(3),
          position |-> PositionDoc(0, 0),
          diggingRange |-> JNum(1), movementRange |-> JNum(1)])

OpponentDoc == JObj([id |-> JNum(2), score |-> JNum(3),
                     worms |-> JArr(<<OpponentWormDoc(1)>>)])

\* an occupier in the player-owned shape
OccupierDoc ==
    JObj([id |-> JNum(1), playerId |-> JNum(1), health |-> JNum(3),
          position |-> PositionDoc(0, 0), weapon |-> WeaponDoc,
          diggingRange |-> JNum(1), movementRange |-> JNum(1)])

PowerupDoc == JObj([type |-> JStr("HEALTH_PACK"), value |-> JNum(5)])

\* a cell without occupier and powerup keys
CellDoc(x, y, type) == JObj([x |-> JNum(x), y |-> JNum(y), type |-> JStr(type)])

With(obj, k, v) ==
    JObj([f \in DOMAIN obj.o \cup {k} |-> IF f = k THEN v ELSE obj.o[f]])

Without(obj, k) == JObj([f \in DOMAIN obj.o \ {k} |-> obj.o[f]])

\* the document with the value at a path replaced; "#1" steps into the first
\* element of an array
RECURSIVE ReplaceAt(_, _, _)
ReplaceAt(doc, path, v) ==
    IF path = <<>> THEN v
    ELSE IF doc.t = "arr"
    THEN JArr([doc.a EXCEPT ![1] = ReplaceAt(@, Tail(path), v)])
    ELSE JObj([doc.o EXCEPT ![Head(path)] = ReplaceAt(@, Tail(path), v)])

\* the document with the key at the end of a path removed
RECURSIVE RemoveAt(_, _)
RemoveAt(doc, path) ==
    IF Len(path) = 1 THEN Without(doc, Head(path))
    ELSE IF doc.t = "arr"
    THEN JArr([doc.a EXCEPT ![1] = RemoveAt(@, Tail(path))])
    ELSE JObj([doc.o EXCEPT ![Head(path)] = RemoveAt(@, Tail(path))])


StateDoc(mapSize, wormId, worms, grid) ==
    JObj([currentRound |-> JNum(0), maxRounds |-> JNum(5),
          mapSize |-> JNum(mapSize), currentWormId |-> JNum(wormId),
          consecutiveDoNothingCount |-> JNum(0),
          myPlayer |-> JObj([id |-> JNum(1), score |-> JNum(3),
                             health |-> JNum(6), worms |-> JArr(worms)]),
          opponents |-> JArr(<<OpponentDoc>>),
          map |-> grid])

Layouts == {"rowmajor", "transposed", "mirrored", "constant"}

TypeOf(x, y) == <<"AIR", "DIRT", "DEEP_SPACE">>[((x + y) % 3) + 1]

\* a grid of rows x cols cells; the layout says which coordinates the cell
\* stored at row r, column c carries
GridDoc(rows, cols, layout) ==
    LET x(r, c) == CASE layout = "rowmajor"   -> c - 1
                     [] layout = "transposed" -> r - 1
                     [] layout = "mirrored"   -> cols - c
                     [] OTHER                 -> 0
        y(r, c) == CASE layout = "rowmajor"   -> r - 1
                     [] layout = "transposed" -> c - 1
                     [] layout = "mirrored"   -> rows - r
                     [] OTHER                 -> 0
    IN  JArr([r \in 1 .. rows |->
                JArr([c \in 1 .. cols |-> CellDoc(x(r, c), y(r, c), TypeOf(r, c))])])

\* worms with the given ids; the health tells the entries apart
WormDocs(ids) == [i \in 1 .. Len(ids) |-> PlayerWormDoc(ids[i], i)]

IdSeqs == UNION {[1 .. n -> 1 .. MaxWormId] : n \in 0 .. MaxWorms}

\* family 1: well-typed documents of every size and layout
ShapeDoc(mapSize, wormId, ids, rows, cols, layout) ==
    StateDoc(mapSize, wormId, WormDocs(ids), GridDoc(rows, cols, layout))

OccupierKinds ==
    {"absent", "null", "string", "player", "opponent",
     "weapon_no_range", "weapon_number", "weapon_null",
     "player_no_playerId", "opponent_no_health", "player_position_no_y"}

OccupierOf(kind) ==
    CASE kind = "null"     -> JNull
      [] kind = "string"   -> JStr("worm")
      [] kind = "player"   -> OccupierDoc
      [] kind = "opponent" -> Without(OccupierDoc, "weapon")
      [] kind = "weapon_no_range" ->
             With(OccupierDoc, "weapon", Without(WeaponDoc, "range"))
      [] kind = "weapon_number" -> With(OccupierDoc, "weapon", JNum(1))
      [] kind = "weapon_null"   -> With(OccupierDoc, "weapon", JNull)
      [] kind = "player_no_playerId" -> Without(OccupierDoc, "playerId")
      [] kind = "opponent_no_health" ->
             Without(Without(OccupierDoc, "weapon"), "health")
      [] OTHER -> With(OccupierDoc, "position", Without(PositionDoc(0, 0), "y"))

PowerupKinds == {"absent", "null", "health_pack", "unknown_type", "no_value", "no_type"}

PowerupOf(kind) ==
    CASE kind = "null"         -> JNull
      [] kind = "health_pack"  -> PowerupDoc
      [] kind = "unknown_type" -> With(PowerupDoc, "type", JStr("SPEED_BOOST"))
      [] kind = "no_value"     -> Without(PowerupDoc, "value")
      [] OTHER                 -> Without(PowerupDoc, "type")

TypeTokens == {"AIR", "DIRT", "DEEP_SPACE", "LAVA", "Air", "deep_space"}

VariedCell(type, occupier, powerup) ==
    LET c0 == CellDoc(0, 0, type)
        c1 == IF occupier = "absent" THEN c0
              ELSE With(c0, "occupier", OccupierOf(occupier))
    IN  IF powerup = "absent" THEN c1 ELSE With(c1, "powerup", PowerupOf(powerup))

\* family 2: a 1 x 1 map whose cell varies in type, occupier and powerup
CellCaseDoc(type, occupier, powerup) ==
    StateDoc(1, 1, WormDocs(<<1>>),
             JArr(<<JArr(<<VariedCell(type, occupier, powerup)>>)>>))

\* a document using every struct of the schema
FullDoc == CellCaseDoc("AIR", "player", "health_pack")

StateKeys == {"currentRound", "maxRounds", "mapSize", "currentWormId",
              "consecutiveDoNothingCount", "myPlayer", "opponents", "map"}

Under(prefix, keys) == {prefix \o <<k>> : k \in keys}

\* the required fields of each struct, by their place in FullDoc
RequiredPaths ==
    [State        |-> Under(<<>>, StateKeys),
     Player       |-> Under(<<"myPlayer">>, {"id", "score", "health", "worms"}),
     PlayerWorm   |-> Under(<<"myPlayer", "worms", "#1">>,
                            {"id", "health", "position", "diggingRange",
                             "movementRange", "weapon"}),
     Opponent     |-> Under(<<"opponents", "#1">>, {"id", "score", "worms"}),
     OpponentWorm |-> Under(<<"opponents", "#1", "worms", "#1">>,
                            {"id", "health", "position", "diggingRange",
                             "movementRange"}),
     Cell         |-> Under(<<"map", "#1", "#1">>, {"x", "y", "type"}),
     Powerup      |-> Under(<<"map", "#1", "#1", "powerup">>, {"type", "value"}),
     Position     |-> Under(<<"myPlayer", "worms", "#1", "position">>, {"x", "y"})
                      \cup Under(<<"opponents", "#1", "worms", "#1", "position">>,
                                 {"x", "y"})
                      \cup Under(<<"map", "#1", "#1", "occupier", "position">>,
                                 {"x", "y"}),
     Weapon       |-> Under(<<"myPlayer", "worms", "#1", "weapon">>,
                            {"damage", "range"})
                      \cup Under(<<"map", "#1", "#1", "occupier", "weapon">>,
                                 {"damage", "range"})]


\* family 3: FullDoc with one required field removed
DefectDoc(path) == RemoveAt(FullDoc, path)

----------------------------------------------------------------------------
(* The file named by the filename argument *)

\* open / read: "ok" or the io::ErrorKind the call fails with;
\* text: what the file holds; label: how the document was built
FileOf(open, read, text, label) ==
    [open |-> open, read |-> read, text |-> text, label |-> label]

TextFile(doc, label) == FileOf("ok", "ok", Json(doc), label)

Label(family) == [family |-> family]

OpenErrors == {"NotFound", "PermissionDenied"}
ReadErrors == {"IsADirectory", "InvalidData"}

Pending == [ok |-> FALSE, kind |-> "pending", cause |-> "none"]
NoAccess == [fn |-> "none"]

InitFile ==
    \/ \E e \in OpenErrors :
          file = FileOf(e, "ok", Json(FullDoc), Label("unreadable"))
    \/ \E e \in ReadErrors :
          file = FileOf("ok", e, Json(FullDoc), Label("unreadable"))
    \/ \E t \in {Garbage, Empty, Json(JArr(<<>>)), Json(JNull)} :
          file = FileOf("ok", "ok", t, Label("not_a_state"))
    \/ \E n \in {-1, MaxU32 + 1} :
          file = TextFile(ReplaceAt(FullDoc, <<"mapSize">>, JNum(n)),
                          Label("not_a_state"))
    \/ \E mapSize \in 1 .. MaxMapSize, wormId \in 1 .. MaxWormId, ids \in IdSeqs,
          rows \in 0 .. MaxMapSize, cols \in 0 .. MaxMapSize, layout \in Layouts :
          file = TextFile(ShapeDoc(mapSize, wormId, ids, rows, cols, layout),
                          [family |-> "shape", mapSize |-> mapSize,
                           wormId |-> wormId, ids |-> ids, rows |-> rows,
                           cols |-> cols, layout |-> layout])
    \/ \E type \in TypeTokens, occupier \in OccupierKinds, powerup \in PowerupKinds :
          file = TextFile(CellCaseDoc(type, occupier, powerup),
                          [family |-> "cell", type |-> type,
                           occupier |-> occupier, powerup |-> powerup])
    \/ \E struct \in DOMAIN RequiredPaths :
          \E path \in RequiredPaths[struct] :
             file = TextFile(DefectDoc(path),
                             [family |-> "defect", struct |-> struct, path |-> path])

Init ==
    /\ InitFile
    /\ pc = "start"
    /\ content = Empty
    /\ result = Pending
    /\ steps = <<>>
    /\ acc = NoAccess
    /\ wire = None
    /\ pos = Position(0, 0)
    /\ ret = NoCall

----------------------------------------------------------------------------
(* read_state_from_json_file *)

\* File::open(filename)?
Open ==
    /\ pc = "start"
    /\ steps' = Append(steps, "open")
    /\ IF file.open # "ok"
       THEN /\ result' = Err("io", file.open)
            /\ pc' = "done"
       ELSE /\ pc' = "opened"
            /\ UNCHANGED result
    /\ UNCHANGED <<file, content, acc, wire, posVars>>

\* a failed read swallowed: the buffer stays empty and the load goes on
Read_ignoring_error ==
    /\ pc = "opened"
    /\ steps' = Append(steps, "read")
    /\ content' = IF file.read # "ok" THEN Empty ELSE file.text
    /\ pc' = "read"
    /\ UNCHANGED <<result, file, acc, wire, posVars>>

\* file.read_to_string(&mut content)?
Read ==
    /\ pc = "opened"
    /\ steps' = Append(steps, "read")
    /\ IF file.read # "ok"
       THEN /\ result' = Err("io", file.read)
            /\ pc' = "done"
            /\ UNCHANGED content
       ELSE /\ content' = file.text
            /\ pc' = "read"
            /\ UNCHANGED result
    /\ UNCHANGED <<file, acc, wire, posVars>>

\* let state: State = serde_json::from_str(content.as_ref())?; Ok(state)
Parse ==
    /\ pc = "read"
    /\ steps' = Append(steps, "parse")
    /\ result' = from_str(content)
    /\ pc' = "done"
    /\ UNCHANGED <<file, content, acc, wire, posVars>>

Loaded == pc = "done" /\ result.ok

\* state.active_worm()
ActiveWorm ==
    /\ Loaded
    /\ acc' = [fn |-> "active_worm", self |-> result.val,
               out |-> active_worm(result.val)]
    /\ UNCHANGED <<file, pc, content, result, steps, wire, posVars>>

\* state.cell_at(&p)
CellAt(p) ==
    /\ Loaded
    /\ acc' = [fn |-> "cell_at", self |-> result.val, arg |-> p,
               out |-> cell_at(result.val, p)]
    /\ UNCHANGED <<file, pc, content, result, steps, wire, posVars>>

\* serde_json::to_string(&state)
Serialize ==
    /\ Loaded
    /\ wire = None
    /\ wire' = Some(to_string(result.val))
    /\ UNCHANGED <<file, pc, content, result, steps, acc, posVars>>

QueryPositions == {Position(x, y) : x, y \in 0 .. MaxMapSize}

Next ==
    \/ Open
    \/ Read
    \/ Parse
    \/ ActiveWorm
    \/ \E p \in QueryPositions : CellAt(p)
    \/ Serialize

Spec == Init /\ [][Next]_vars

----------------------------------------------------------------------------
(* The Position helpers, swept over receivers, distances and bounds *)

InitPos ==
    /\ \E x, y \in Vals : pos = Position(x, y)
    /\ ret = NoCall
    /\ file = FileOf("NotFound", "ok", Empty, Label("unreadable"))
    /\ pc = "start"
    /\ content = Empty
    /\ result = Pending
    /\ steps = <<>>
    /\ acc = NoAccess
    /\ wire = None

NextPos ==
    \/ \E d \in Vals : West(d) /\ UNCHANGED loadVars
    \/ \E d, m \in Vals : East(d, m) /\ UNCHANGED loadVars
    \/ \E d \in Vals : North(d) /\ UNCHANGED loadVars
    \/ \E d, m \in Vals : South(d, m) /\ UNCHANGED loadVars

SpecPos == InitPos /\ [][NextPos]_vars

TypeOK ==
    /\ pc \in {"start", "opened", "read", "done"}
    /\ Len(steps) <= 3

----------------------------------------------------------------------------
(* Properties of the Position helpers (checked under SpecPos) *)

\* C1: east(distance, max) returns (x + distance, y) exactly when the true
\* sum x + distance is strictly below max and None otherwise, also when the
\* sum exceeds the largest word; south does the same on y with x kept.  The
\* moved coordinate of a returned position is below max and never wrapped.
C1_EastSouthBounded ==
    /\ ret.op = "east" =>
          ret.out = IF ret.self.x + ret.distance < ret.max
                    THEN Some(Position(ret.self.x + ret.distance, ret.self.y))
                    ELSE None
    /\ ret.op = "south" =>
          ret.out = IF ret.self.y + ret.distance < ret.max
                    THEN Some(Position(ret.self.x, ret.self.y + ret.distance))
                    ELSE None
    /\ ret.op = "east" /\ IsSome(ret.out) =>
          /\ Unwrap(ret.out).x < ret.max
          /\ Unwrap(ret.out).x >= ret.self.x
    /\ ret.op = "south" /\ IsSome(ret.out) =>
          /\ Unwrap(ret.out).y < ret.max
          /\ Unwrap(ret.out).y >= ret.self.y

\* east called where the sum leaves the word range and the wrapped sum would
\* have passed the bound test
C1_Witness ==
    /\ ret.op = "east"
    /\ ret.self.x + ret.distance > MaxU32
    /\ (ret.self.x + ret.distance) % (MaxU32 + 1) < ret.max
    /\ ret.out = None

\* C2: west(distance) returns (x - distance, y) exactly when distance <= x and
\* None when distance > x; north does the same on y with x kept.  The result
\* is never negative or wrapped, and west(0) / north(0) return the receiver.
C2_WestNorthChecked ==
    /\ ret.op = "west" =>
          ret.out = IF ret.distance <= ret.self.x
                    THEN Some(Position(ret.self.x - ret.distance, ret.self.y))
                    ELSE None
    /\ ret.op = "north" =>
          ret.out = IF ret.distance <= ret.self.y
                    THEN Some(Position(ret.self.x, ret.self.y - ret.distance))
                    ELSE None
    /\ ret.op \in {"west", "north"} /\ IsSome(ret.out) =>
          /\ Unwrap(ret.out).x \in 0 .. ret.self.x
          /\ Unwrap(ret.out).y \in 0 .. ret.self.y
    /\ ret.op \in {"west", "north"} /\ ret.distance = 0 =>
          ret.out = Some(ret.self)

\* west called with a distance larger than x
C2_Witness ==
    /\ ret.op = "west"
    /\ ret.distance > ret.self.x
    /\ ret.out = None

\* C10: where they succeed the helpers are mutual inverses and keep the other
\* axis: east then west, south then north, west then east (for every bound
\* above the receiver's x) and north then south (for every bound above the
\* receiver's y) lead back to the receiver, and the receiver is unchanged by
\* the call.
C10_StepInverses ==
    /\ ret.op = "east" /\ IsSome(ret.out) =>
          /\ Unwrap(ret.out).y = ret.self.y
          /\ west(Unwrap(ret.out), ret.distance) = Some(ret.self)
    /\ ret.op = "south" /\ IsSome(ret.out) =>
          /\ Unwrap(ret.out).x = ret.self.x
          /\ north(Unwrap(ret.out), ret.distance) = Some(ret.self)
    /\ ret.op = "west" /\ IsSome(ret.out) =>
          /\ Unwrap(ret.out).y = ret.self.y
          /\ \A m \in Vals : m > ret.self.x =>
                east(Unwrap(ret.out), ret.distance, m) = Some(ret.self)
    /\ ret.op = "north" /\ IsSome(ret.out) =>
          /\ Unwrap(ret.out).x = ret.self.x
          /\ \A m \in Vals : m > ret.self.y =>
                south(Unwrap(ret.out), ret.distance, m) = Some(ret.self)
    /\ ret.op # "none" => pos = ret.self

\* a successful south step of positive length from a receiver with x # y
C10_Witness ==
    /\ ret.op = "south"
    /\ IsSome(ret.out)
    /\ ret.distance > 0
    /\ ret.self.x # ret.self.y

----------------------------------------------------------------------------
(* Properties of the loader and the accessors (checked under Spec) *)

Readable == file.open = "ok" /\ file.read = "ok"

ValidTypeTokens == {"AIR", "DIRT", "DEEP_SPACE"}

\* the single cell of a loaded family-2 document
TheCell == result.val.map[1][1]

\* a family-2 document in which only the occupier decides the outcome
OccupierCase(kinds) ==
    /\ pc = "done"
    /\ Readable
    /\ file.label.family = "cell"
    /\ file.label.type \in ValidTypeTokens
    /\ file.label.powerup \in {"absent", "health_pack"}
    /\ file.label.occupier \in kinds

\* occupiers that carry a weapon key whose value is not a well-formed weapon
BrokenWeapon == {"weapon_no_range", "weapon_number", "weapon_null"}

\* C3: the occupier is discriminated by shape, the weapon-bearing variant
\* tried first: worm fields plus a well-formed weapon decode to
\* CellWorm::PlayerWorm, worm fields without a weapon to
\* CellWorm::OpponentWorm, an occupier of neither shape fails the parse, an
\* absent occupier (or powerup) decodes to None, and an occupier that bears
\* a weapon is never decoded as the opponent variant.
C3_OccupierByShape ==
    /\ OccupierCase({"player"}) =>
          /\ result.ok
          /\ IsSome(TheCell.occupier)
          /\ Unwrap(TheCell.occupier).variant = "PlayerWorm"
    /\ OccupierCase({"opponent"}) =>
          /\ result.ok
          /\ IsSome(TheCell.occupier)
          /\ Unwrap(TheCell.occupier).variant = "OpponentWorm"
    /\ OccupierCase({"string", "player_no_playerId", "opponent_no_health",
                     "player_position_no_y"} \cup BrokenWeapon) =>
          ~result.ok /\ result.kind = "parse"
    /\ OccupierCase({"absent"}) =>
          result.ok /\ TheCell.occupier = None
    /\ OccupierCase(OccupierKinds) /\ result.ok /\ file.label.powerup = "absent" =>
          TheCell.powerup = None
    /\ OccupierCase({"player"} \cup BrokenWeapon) /\ result.ok =>
          ~(IsSome(TheCell.occupier)
              /\ Unwrap(TheCell.occupier).variant = "OpponentWorm")

\* what the code does with the occupiers C3 is about
C3_AsImplemented ==
    /\ OccupierCase({"player"}) =>
          /\ result.ok
          /\ TheCell.occupier =
                Some([variant |-> "PlayerWorm", id |-> 1, player_id |-> 1,
                      health |-> 3, position |-> Position(0, 0),
                      digging_range |-> 1, movement_range |-> 1,
                      weapon |-> [damage |-> 1, range |-> 3]])
    /\ OccupierCase({"opponent"} \cup BrokenWeapon) =>
          /\ result.ok
          /\ TheCell.occupier =
                Some([variant |-> "OpponentWorm", id |-> 1, player_id |-> 1,
                      health |-> 3, position |-> Position(0, 0),
                      digging_range |-> 1, movement_range |-> 1])
    /\ OccupierCase({"string", "player_no_playerId", "opponent_no_health",
                     "player_position_no_y"}) =>
          ~result.ok /\ result.kind = "parse"
    /\ OccupierCase({"absent", "null"}) =>
          result.ok /\ TheCell.occupier = None

\* a readable document that misses a required field or carries an unknown
\* enumeration token
Defective ==
    /\ Readable
    /\ \/ file.label.family = "defect"
       \/ /\ file.label.family = "cell"
          /\ \/ file.label.type \notin ValidTypeTokens
             \/ file.label.powerup \in {"unknown_type", "no_value", "no_type"}

\* C4: a document missing a required field of State, Player, PlayerWorm,
\* Opponent, OpponentWorm, Cell, Powerup, Position or Weapon, or carrying a
\* cell type outside AIR, DIRT, DEEP_SPACE or a powerup type other than
\* HEALTH_PACK, makes the load fail with a parse failure; no State is
\* returned for it.
C4_MissingFieldFails ==
    pc = "done" /\ Defective => ~result.ok /\ result.kind = "parse"

\* the same with the fields of a weapon inside a cell occupier left out of
\* the required fields
C4_OutsideOccupierWeapon ==
    /\ pc = "done"
    /\ Defective
    /\ ~(/\ file.label.family = "defect"
         /\ file.label.path \in
               Under(<<"map", "#1", "#1", "occupier", "weapon">>, {"damage", "range"}))
    => ~result.ok /\ result.kind = "parse"

LoadSteps == <<"open", "read", "parse">>

\* C5: the loader opens, reads and parses in that order and ends in exactly
\* one of: an I/O failure carrying the cause when the source cannot be
\* opened or read (nothing is parsed then), a parse failure when the content
\* was read, or a whole State.  Nothing is retried or recovered, and no
\* State exists before the load has finished.
C5_ThreeOutcomes ==
    /\ \E n \in 0 .. 3 : steps = SubSeq(LoadSteps, 1, n)
    /\ pc # "done" => result = Pending
    /\ pc = "done" =>
          \/ /\ file.open # "ok"
             /\ result = Err("io", file.open)
             /\ steps = <<"open">>
          \/ /\ file.open = "ok" /\ file.read # "ok"
             /\ result = Err("io", file.read)
             /\ steps = <<"open", "read">>
          \/ /\ Readable
             /\ steps = LoadSteps
             /\ content = file.text
             /\ \/ ~result.ok /\ result.kind = "parse" /\ result.cause # "none"
                \/ /\ result.ok
                   /\ DOMAIN result.val =
                         {"current_round", "max_rounds", "map_size",
                          "current_worm_id", "consecutive_do_nothing_count",
                          "my_player", "opponents", "map"}

\* the load ended in an I/O failure of the read, after a successful open
C5_Witness ==
    /\ pc = "done"
    /\ file.read = "InvalidData"
    /\ ~result.ok
    /\ result.kind = "io"

\* the State invariant of the data model
StateInvariant(s) ==
    /\ Len(s.map) = s.map_size
    /\ \A r \in 1 .. Len(s.map) : Len(s.map[r]) = s.map_size
    /\ \E i \in 1 .. Len(s.my_player.worms) :
          s.my_player.worms[i].id = s.current_worm_id

\* C6: every State the load returns has a map of mapSize rows of mapSize
\* cells and a currentWormId that is the id of one of myPlayer.worms, so
\* active_worm on a loaded State never panics.
C6_LoadedStateInvariant ==
    /\ Loaded => StateInvariant(result.val)
    /\ acc.fn = "active_worm" => ~acc.out.panic

\* C6 as amended: the load checks none of this.  The State returned for a
\* well-typed document has the mapSize, rows, cells, currentWormId and worm
\* ids the document carries, so it satisfies the invariant exactly when the
\* document does, and active_worm on it panics exactly when the document's
\* currentWormId is not the id of one of its worms.
C6_InvariantAsInDocument ==
    pc = "done" /\ Readable /\ file.label.family = "shape" =>
       LET l == file.label
           s == result.val
       IN  /\ result.ok
           /\ s.map_size = l.mapSize
           /\ Len(s.map) = l.rows
           /\ \A r \in 1 .. Len(s.map) : Len(s.map[r]) = l.cols
           /\ s.current_worm_id = l.wormId
           /\ [i \in 1 .. Len(s.my_player.worms) |-> s.my_player.worms[i].id] = l.ids
           /\ StateInvariant(s) <=>
                 /\ l.rows = l.mapSize
                 /\ l.cols = l.mapSize
                 /\ \E i \in 1 .. Len(l.ids) : l.ids[i] = l.wormId
           /\ acc.fn = "active_worm" =>
                 (acc.out.panic <=> \A i \in 1 .. Len(l.ids) : l.ids[i] # l.wormId)

\* a document whose map is not mapSize x mapSize and whose currentWormId is
\* no worm's id was loaded, and active_worm panicked on the State
C6_Witness ==
    /\ Loaded
    /\ file.label.family = "shape"
    /\ file.label.rows # file.label.mapSize
    /\ acc.fn = "active_worm"
    /\ acc.out.panic

\* C7: serialising a State and parsing the text again gives the State back,
\* with player-owned, opponent-owned and absent occupiers and absent
\* powerups unchanged.
C7_RoundTrip ==
    IsSome(wire) => from_str(Unwrap(wire)) = Ok(result.val)

\* a State with a player-owned occupier and no powerup was serialised
C7_Witness ==
    /\ IsSome(wire)
    /\ file.label.family = "cell"
    /\ IsSome(TheCell.occupier)
    /\ Unwrap(TheCell.occupier).variant = "PlayerWorm"
    /\ TheCell.powerup = None

CellsAt(s, x, y) ==
    {i \in 1 .. Len(Flatten(s.map)) :
        Flatten(s.map)[i].x = x /\ Flatten(s.map)[i].y = y}

\* every coordinate of the map_size x map_size square is carried by exactly one cell
FullyPopulated(s) ==
    \A x, y \in 0 .. (s.map_size - 1) : Cardinality(CellsAt(s, x, y)) = 1

\* C8: in a fully populated grid cell_at returns, for every in-bounds
\* position, the one cell whose stored x and y equal the position's, whatever
\* row and column the cell is stored at, and leaves the State unchanged.
C8_CellAtByCoordinates ==
    /\ acc.fn = "cell_at" => acc.self = result.val
    /\ /\ acc.fn = "cell_at"
       /\ FullyPopulated(acc.self)
       /\ acc.arg.x < acc.self.map_size
       /\ acc.arg.y < acc.self.map_size
       => /\ ~acc.out.panic
          /\ acc.out.val.x = acc.arg.x
          /\ acc.out.val.y = acc.arg.y
          /\ \E i \in CellsAt(acc.self, acc.arg.x, acc.arg.y) :
                acc.out.val = Flatten(acc.self.map)[i]

\* cell_at answered for a cell that is not stored at row y, column x
C8_Witness ==
    /\ acc.fn = "cell_at"
    /\ FullyPopulated(acc.self)
    /\ acc.self.map_size = 2
    /\ acc.arg = Position(1, 0)
    /\ ~acc.out.panic
    /\ acc.self.map[1][2] # acc.out.val

\* C9: when some worm of myPlayer.worms has the id currentWormId,
\* active_worm returns the first such worm and never a worm with another id;
\* when none has, the call panics.
C9_ActiveWormFirstMatch ==
    acc.fn = "active_worm" =>
       LET ws == acc.self.my_player.worms
           matches == {i \in 1 .. Len(ws) : ws[i].id = acc.self.current_worm_id}
       IN  IF matches # {}
           THEN /\ ~acc.out.panic
                /\ acc.out.val.id = acc.self.current_worm_id
                /\ \E i \in matches :
                      /\ acc.out.val = ws[i]
                      /\ \A j \in matches : i <= j
           ELSE acc.out.panic

\* active_worm called where two worms share the current worm id
C9_Witness ==
    /\ acc.fn = "active_worm"
    /\ Len(acc.self.my_player.worms) = 2
    /\ acc.self.my_player.worms[1].id = acc.self.current_worm_id
    /\ acc.self.my_player.worms[2].id = acc.self.current_worm_id
    /\ ~acc.out.panic

====
